---- MODULE Spec2Model ----
(***************************************************************************)
(* Model of the lexer of src/src/index.ts: Definition (a compiled pattern  *)
(* with behaviour flags) and lexer()/tokenizer (the matching loop with     *)
(* deep recursion, loop detection and the processing pipeline).            *)
(*                                                                         *)
(* Strings are sequences of one-character strings.  A regular expression   *)
(* is a syntax tree; Ends is a backtracking matcher that lists the ways a  *)
(* pattern can match at a position in the order the host engine tries      *)
(* them, so RegExp.exec is the first element and RegExp.test is            *)
(* non-emptiness.                                                          *)
(***************************************************************************)
EXTENDS Integers, Sequences, FiniteSets, TLC

\* ------------------------------------------------------------------ bounds
MaxLen == 3
MaxCalls == 2
MaxReenter == 1
MaxIterations == 10

\* ------------------------------------------------------------- characters
Letters == {"a", "b"}
Alphabet == Letters \cup {" "}
NotSpace == Letters
Space == {" "}

Digits == {"1", "2", "3"}
IsWordChar(c) == c \in Letters \cup Digits

RECURSIVE StringsOfLen(_, _)
StringsOfLen(chars, n) ==
  IF n = 0 THEN {<< >>}
  ELSE {Append(s, c) : s \in StringsOfLen(chars, n - 1), c \in chars}

Inputs(chars) == UNION {StringsOfLen(chars, n) : n \in 0..MaxLen}

\* ------------------------------------------------------ regular expressions
Lit(s) == [k |-> "lit", s |-> s]
Cls(S) == [k |-> "cls", set |-> S]
Cat(x, y) == [k |-> "cat", l |-> x, r |-> y]
Alt(x, y) == [k |-> "alt", l |-> x, r |-> y]
Star(x) == [k |-> "star", x |-> x]
Plus(x) == Cat(x, Star(x))
Group(name, x) == [k |-> "grp", name |-> name, x |-> x]
WordB == [k |-> "wb"]

\* \b at offset i of s: exactly one side of the position is a word character.
AtBoundary(s, i) ==
  (i > 0 /\ IsWordChar(s[i])) # (i < Len(s) /\ IsWordChar(s[i + 1]))

\* The names of the named capture groups of a pattern.
RECURSIVE GroupNames(_)
GroupNames(r) ==
  CASE r.k = "grp" -> {r.name} \cup GroupNames(r.x)
    [] r.k \in {"cat", "alt"} -> GroupNames(r.l) \cup GroupNames(r.r)
    [] r.k = "star" -> GroupNames(r.x)
    [] OTHER -> {}

\* The element of a one-element set.  {F(x) : x \in {v}} is F of the value
\* of v, v being worked out once.
The(S) == CHOOSE y \in S : TRUE

\* Ends(r, s, m): the matches of r in s that start where the partial match m
\* ends, in backtracking order.  A match is [e |-> offset reached,
\* g |-> named captures so far].
RECURSIVE Ends(_, _, _)
RECURSIVE EndsFrom(_, _, _)
RECURSIVE StarFrom(_, _, _, _)
EndsFrom(r, s, ms) ==
  IF ms = << >> THEN << >>
  ELSE Ends(r, s, Head(ms)) \o EndsFrom(r, s, Tail(ms))

StarFrom(r, s, ms, i) ==
  IF ms = << >> THEN << >>
  ELSE (IF Head(ms).e > i THEN Ends(r, s, Head(ms)) ELSE << >>)
         \o StarFrom(r, s, Tail(ms), i)

Ends(r, s, m) ==
  CASE r.k = "lit" ->
         IF /\ m.e + Len(r.s) <= Len(s)
            /\ SubSeq(s, m.e + 1, m.e + Len(r.s)) = r.s
         THEN << [m EXCEPT !.e = m.e + Len(r.s)] >>
         ELSE << >>
    [] r.k = "cls" ->
         IF m.e < Len(s) /\ s[m.e + 1] \in r.set
         THEN << [m EXCEPT !.e = m.e + 1] >>
         ELSE << >>
    [] r.k = "cat" -> The({EndsFrom(r.r, s, ms) : ms \in {Ends(r.l, s, m)}})
    [] r.k = "alt" -> Ends(r.l, s, m) \o Ends(r.r, s, m)
    [] r.k = "star" ->
         The({StarFrom(r, s, ms, m.e) : ms \in {Ends(r.x, s, m)}}) \o << m >>
    [] r.k = "grp" ->
         The({[j \in 1..Len(inner) |->
                 [inner[j] EXCEPT
                    !.g = (r.name :> SubSeq(s, m.e + 1, inner[j].e)) @@ @]] :
              inner \in {Ends(r.x, s, m)}})
    [] r.k = "wb" -> IF AtBoundary(s, m.e) THEN << m >> ELSE << >>

\* A compiled RegExp is anchored at the start of the string (buildRegex
\* prepends "^"), so every attempt starts at offset 0.
\* match.groups is undefined when the pattern has no named group; otherwise
\* it has a key for every named group, undefined for those that did not take
\* part in the match.
Undefined == <<"undefined">>

RegexExec(regex, input) ==
  The({IF ms = << >> THEN [matched |-> FALSE]
       ELSE [matched |-> TRUE,
             text |-> SubSeq(input, 1, ms[1].e),
             hasGroups |-> GroupNames(regex) # {},
             groups |-> [n \in GroupNames(regex) |->
                           IF n \in DOMAIN ms[1].g THEN ms[1].g[n]
                           ELSE Undefined]] :
       ms \in {Ends(regex, input, [e |-> 0, g |-> << >>])}})

RegexTest(regex, input) == RegexExec(regex, input).matched

\* ------------------------------------------------------------- processors
\* A TokenProcessor is a caller-supplied function.  Three kinds are
\* modelled: the identity (defaultProcessor), one that appends a fixed
\* suffix to the token's value, and one that calls the tokenizer on the
\* token's value from inside the hook and returns its token unchanged.
defaultProcessor == [kind |-> "id"]
SuffixProcessor(sfx) == [kind |-> "suffix", sfx |-> sfx]
ReenterProcessor == [kind |-> "reenter"]

ApplyProcessor(p, token) ==
  IF p.kind = "suffix" THEN [token EXCEPT !.value = @ \o p.sfx] ELSE token

\* ------------------------------------------------------------- Definition
Has(props, field) == field \in DOMAIN props

RECURSIVE JoinAlt(_)
JoinAlt(rs) == IF Len(rs) = 1 THEN rs[1] ELSE Alt(Head(rs), JoinAlt(Tail(rs)))

\* escapeLiteral: every character of the literal matches itself only.
LiteralRegex(lits) == [j \in 1..Len(lits) |-> Lit(lits[j])]

\* props.regex and props.literal are given as arrays (asArray wraps a single
\* pattern into a one-element array).
ExecRegexOf(props) ==
  LET execArray == IF Has(props, "regex") THEN props.regex
                   ELSE LiteralRegex(props.literal)
      alternation == JoinAlt(execArray)
      wordBoundary == IF Has(props, "wordBoundary") THEN props.wordBoundary
                      ELSE TRUE
  IN  IF wordBoundary THEN Cat(WordB, Cat(alternation, WordB)) ELSE alternation

\* Mutant of TestRegexOf: valid is ignored, the match rule decides.
TestRegexWithoutValid(props) ==
  IF Has(props, "nextValid") THEN Cat(ExecRegexOf(props), props.nextValid)
  ELSE ExecRegexOf(props)

TestRegexOf(props) ==
  IF Has(props, "valid") THEN props.valid
  ELSE IF Has(props, "nextValid") THEN Cat(ExecRegexOf(props), props.nextValid)
  ELSE ExecRegexOf(props)

Definition(props) ==
  [type |-> props.type,
   wordBoundary |-> IF Has(props, "wordBoundary") THEN props.wordBoundary ELSE TRUE,
   deep |-> IF Has(props, "deep") THEN props.deep ELSE FALSE,
   skip |-> IF Has(props, "skip") THEN props.skip ELSE FALSE,
   process |-> IF Has(props, "process") THEN props.process ELSE defaultProcessor,
   execRegex |-> ExecRegexOf(props),
   testRegex |-> TestRegexOf(props)]


DefExec(d, input) == RegexExec(d.execRegex, input)
DefTest(d, input) == RegexTest(d.testRegex, input)

\* ------------------------------------------------- the definitions in use
Word == Plus(Cls(NotSpace))
Blank == Plus(Cls(Space))
NounPhrase == Cat(Lit(<<"a">>), Star(Cat(Lit(<<"b">>), Lit(<<"a">>))))

wordDef == Definition([type |-> "word", regex |-> <<Word>>])
spaceDef == Definition([type |-> "space", regex |-> <<Blank>>, wordBoundary |-> FALSE])
spaceSkipDef ==
  Definition([type |-> "space", regex |-> <<Blank>>, wordBoundary |-> FALSE,
              skip |-> TRUE])
charDef ==
  Definition([type |-> "mock1", regex |-> <<Cls(NotSpace)>>, wordBoundary |-> FALSE])
mock2Def == Definition([type |-> "mock2", regex |-> <<Word>>])
literalDef == Definition([type |-> "literal", literal |-> << <<"a">>, <<"a", "b">> >>])
localDef ==
  Definition([type |-> "word", regex |-> <<Word>>,
              process |-> SuffixProcessor(<<"-local">>)])
def1 == Definition([type |-> "token1", regex |-> <<Word>>, deep |-> TRUE])
def2 == Definition([type |-> "token2", regex |-> <<Word>>, deep |-> TRUE])
def3 == Definition([type |-> "token3", regex |-> <<Word>>])
sprepDef ==
  Definition([type |-> "sprep", regex |-> <<Cat(Lit(<<"b">>), NounPhrase)>>,
              wordBoundary |-> FALSE, deep |-> TRUE])
snDef ==
  Definition([type |-> "sn", regex |-> <<NounPhrase>>, wordBoundary |-> FALSE,
              deep |-> TRUE])
prepDef == Definition([type |-> "prep", literal |-> << <<"b">> >>, wordBoundary |-> FALSE])
nounDef == Definition([type |-> "noun", literal |-> << <<"a">> >>, wordBoundary |-> FALSE])
nounDeepDef ==
  Definition([type |-> "noun", literal |-> << <<"a">> >>, wordBoundary |-> FALSE,
              deep |-> TRUE])
mismatchDef == Definition([type |-> "mock", regex |-> <<Blank>>, valid |-> Word])
lineDef ==
  Definition([type |-> "line", regex |-> <<Plus(Cls(Alphabet))>>,
              wordBoundary |-> FALSE, deep |-> TRUE])
\* /(?<article>a) (?<value>(?<animal>b+))/
groupDef ==
  Definition([type |-> "group",
              regex |-> <<Cat(Group("article", Lit(<<"a">>)),
                              Cat(Lit(<<" ">>),
                                  Group("value",
                                        Group("animal", Plus(Lit(<<"b">>))))))>>])
\* /(?<adjective>b)((?<animal>a+)|(?<plant>b))/
dataDef ==
  Definition([type |-> "data",
              regex |-> <<Cat(Group("adjective", Lit(<<"b">>)),
                              Alt(Group("animal", Plus(Lit(<<"a">>))),
                                  Group("plant", Lit(<<"b">>))))>>])
spaceWbDef == Definition([type |-> "space", regex |-> <<Blank>>])
helloDef == Definition([type |-> "hello", regex |-> <<Lit(<<"a">>)>>])
worldDef == Definition([type |-> "world", regex |-> <<Word>>])
\* /a(?<value>b*)/
tailDeepDef ==
  Definition([type |-> "tail",
              regex |-> <<Cat(Lit(<<"a">>), Group("value", Star(Lit(<<"b">>))))>>,
              wordBoundary |-> FALSE, deep |-> TRUE])
skipDeepDef ==
  Definition([type |-> "space", regex |-> <<Blank>>, wordBoundary |-> FALSE,
              skip |-> TRUE, deep |-> TRUE])

\* literal "a" that must be followed by "b"; /[^ ]+/ that must be followed
\* by "b"; /[^ ]+/ validated by /a/
keyDef ==
  Definition([type |-> "key", literal |-> << <<"a">> >>, wordBoundary |-> FALSE,
              nextValid |-> Lit(<<"b">>)])
nextDef ==
  Definition([type |-> "next", regex |-> <<Word>>, wordBoundary |-> FALSE,
              nextValid |-> Lit(<<"b">>)])
validDef == Definition([type |-> "valid", regex |-> <<Word>>, valid |-> Lit(<<"a">>)])

\* /[ ]*/, skipped: it matches the empty text in front of a letter.
skipStarDef ==
  Definition([type |-> "space", regex |-> <<Star(Cls(Space))>>,
              wordBoundary |-> FALSE, skip |-> TRUE])

\* The definitions of the README's usage example.
readmeWord ==
  Definition([type |-> "word", regex |-> <<Plus(Cls(Letters \cup Digits))>>])
readmeNumber == Definition([type |-> "number", regex |-> <<Plus(Cls(Digits))>>])
readmeOperator ==
  Definition([type |-> "operator",
              literal |-> << <<"+">>, <<"-">>, <<"*">>, <<"/">> >>,
              wordBoundary |-> FALSE])
readmeParenthesis ==
  Definition([type |-> "parenthesis", literal |-> << <<"(">>, <<")">> >>,
              wordBoundary |-> FALSE])
readmeWhitespace ==
  Definition([type |-> "whitespace", regex |-> <<Blank>>, skip |-> TRUE,
              wordBoundary |-> FALSE])

\* The Definition objects, by name; a definition list holds names.
DefinitionObjects ==
  [wordDef |-> wordDef,
   spaceDef |-> spaceDef,
   spaceSkipDef |-> spaceSkipDef,
   charDef |-> charDef,
   mock2Def |-> mock2Def,
   literalDef |-> literalDef,
   localDef |-> localDef,
   def1 |-> def1,
   def2 |-> def2,
   def3 |-> def3,
   sprepDef |-> sprepDef,
   snDef |-> snDef,
   prepDef |-> prepDef,
   nounDef |-> nounDef,
   nounDeepDef |-> nounDeepDef,
   mismatchDef |-> mismatchDef,
   lineDef |-> lineDef,
   groupDef |-> groupDef,
   dataDef |-> dataDef,
   spaceWbDef |-> spaceWbDef,
   helloDef |-> helloDef,
   worldDef |-> worldDef,
   tailDeepDef |-> tailDeepDef,
   skipDeepDef |-> skipDeepDef,
   keyDef |-> keyDef,
   nextDef |-> nextDef,
   validDef |-> validDef,
   skipStarDef |-> skipStarDef,
   readmeWord |-> readmeWord,
   readmeNumber |-> readmeNumber,
   readmeOperator |-> readmeOperator,
   readmeParenthesis |-> readmeParenthesis,
   readmeWhitespace |-> readmeWhitespace]

\* The tokenizers built by lexer(definitions, lexerProcessor), each with the
\* characters its callers' inputs are made of and the per-call processors
\* its callers pass.
AB == Letters
ASpace == {"a", " "}
Plain == {defaultProcessor}
Both == {defaultProcessor, SuffixProcessor(<<"-tokenizer">>)}

Lexer(defs, processor, alphabet, processors) ==
  [definitions |-> defs, lexerProcessor |-> processor, alphabet |-> alphabet,
   processors |-> processors, examples |-> {}]

\* The README's usage example: its definitions and the input it tokenizes.
ReadmeDefinitions ==
  <<"readmeWord", "readmeNumber", "readmeOperator", "readmeParenthesis",
    "readmeWhitespace">>
ReadmeInput == <<"1", " ", "+", " ", "2", " ", "*", " ", "3">>
ReadmeLexer ==
  [definitions |-> ReadmeDefinitions, lexerProcessor |-> defaultProcessor,
   alphabet |-> {"a"}, processors |-> Plain, examples |-> {ReadmeInput}]

Lexers ==
  { Lexer(<<"wordDef", "spaceDef">>, defaultProcessor, Alphabet, Plain),
    Lexer(<<"localDef", "spaceDef">>, SuffixProcessor(<<"-lexer">>), ASpace, Both),
    Lexer(<<"charDef", "mock2Def", "spaceSkipDef">>, defaultProcessor, Alphabet, Plain),
    Lexer(<<"literalDef", "spaceSkipDef">>, defaultProcessor, Alphabet, Plain),
    Lexer(<<"def1", "def2">>, defaultProcessor, ASpace, Plain),
    Lexer(<<"def1", "def2", "def3">>, defaultProcessor, ASpace, Plain),
    Lexer(<<"def1", "def3">>, defaultProcessor, ASpace, Both),
    Lexer(<<"def1", "def3", "spaceSkipDef">>, ReenterProcessor, ASpace, Plain),
    Lexer(<<"sprepDef", "snDef", "prepDef", "nounDef", "spaceSkipDef">>, defaultProcessor,
          AB, Plain),
    Lexer(<<"sprepDef", "snDef", "prepDef", "nounDeepDef", "spaceSkipDef">>,
          defaultProcessor, AB, Plain),
    Lexer(<<"mismatchDef", "wordDef", "spaceDef">>, defaultProcessor, ASpace, Plain),
    Lexer(<<"lineDef", "wordDef">>, defaultProcessor, ASpace, Plain),
    Lexer(<<"groupDef", "dataDef", "wordDef", "spaceDef">>, defaultProcessor, Alphabet,
          Plain),
    Lexer(<<"spaceWbDef", "helloDef", "worldDef">>, defaultProcessor, Alphabet, Plain),
    Lexer(<<"tailDeepDef", "wordDef">>, defaultProcessor, AB, Plain),
    Lexer(<<"wordDef", "skipDeepDef">>, defaultProcessor, ASpace, Plain),
    Lexer(<<"lineDef", "wordDef", "spaceSkipDef">>, defaultProcessor, ASpace, Plain),
    Lexer(<<"keyDef", "nextDef", "validDef", "wordDef", "spaceSkipDef">>,
          defaultProcessor, Alphabet, Plain),
    Lexer(<<"def1", "localDef">>, SuffixProcessor(<<"-lexer">>), {"a"}, Both),
    Lexer(<<"skipStarDef", "wordDef">>, defaultProcessor, ASpace, Plain),
    ReadmeLexer }

\* ------------------------------------------------------------------ state
VARIABLES
  callers,           \* the inputs and per-call processors the callers use
  definitions,       \* lexer(): the definition list, in priority order
  lexerProcessor,    \* lexer(): the engine-level processor
  parentDefinition,  \* lexer(): index of the definition being recursed into, 0 = null
  usedDefinitions,   \* lexer(): Map definition -> value, in insertion order
  stack,             \* the activations of tokenizer(), innermost last
  result,            \* what the last finished call delivered to its caller
  ncalls,            \* top-level calls started so far
  calls,             \* the definitions whose test() was called since the last
                     \* top-level call began, in call order
  definitionProps,   \* the DefinitionProps a caller passes to definition()
  built              \* what definition(props) gave: a Definition or an error

vars == <<callers, definitions, lexerProcessor, parentDefinition, usedDefinitions, stack,
          result, ncalls, calls, definitionProps, built>>


Null == 0
\* definitions[j], the object
Def(j) == DefinitionObjects[definitions[j]]
NoToken == [none |-> TRUE]
NoResult == [status |-> "none"]

\* ------------------------------------------------- Map<Definition, string>
UsedHas(used, d) == \E j \in 1..Len(used) : used[j].def = d
UsedGet(used, d) == used[CHOOSE j \in 1..Len(used) : used[j].def = d].value
\* Map.set keeps the position of a key that is already present.
UsedSet(used, d, value) ==
  IF UsedHas(used, d)
  THEN [j \in 1..Len(used) |->
          IF used[j].def = d THEN [def |-> d, value |-> value] ELSE used[j]]
  ELSE Append(used, [def |-> d, value |-> value])
UsedDelete(used, d) == SelectSeq(used, LAMBDA e : e.def # d)
UsedKeyTypes(used) == [j \in 1..Len(used) |-> Def(used[j].def).type]

\* ------------------------------------------------ one iteration of the loop
\* definitions.filter(d => d != parentDefinition), as indices in list order.
FilterDefinitions(parent) ==
  SelectSeq([j \in 1..Len(definitions) |-> j], LAMBDA j : j # parent)

\* Mutants of ValidDefinitions: nothing is excluded; every definition being
\* recursed into is excluded, not only the parent.
KeepAllDefinitions(parent) == FilterDefinitions(Null)
OmitAncestors(parent) ==
  SelectSeq(FilterDefinitions(parent), LAMBDA j : ~UsedHas(usedDefinitions, j))

ValidDefinitions(parent) == FilterDefinitions(parent)

\* validDefinitions.find(d => d.test(rest)); Null when none passes.
FirstPassing(valid, rest) ==
  LET passing == SelectSeq(valid, LAMBDA j : DefTest(Def(j), rest))
  IN  IF passing = << >> THEN Null ELSE Head(passing)

\* Mutants of FindDefinition: the last passing definition wins; a definition
\* whose match rule fails is passed over.
LastPassing(valid, rest) ==
  LET passing == SelectSeq(valid, LAMBDA j : DefTest(Def(j), rest))
  IN  IF passing = << >> THEN Null ELSE passing[Len(passing)]
FirstExtractable(valid, rest) ==
  LET passing == SelectSeq(valid, LAMBDA j : /\ DefTest(Def(j), rest)
                                            /\ DefExec(Def(j), rest).matched)
  IN  IF passing = << >> THEN Null ELSE Head(passing)

FindDefinition(valid, rest) == FirstPassing(valid, rest)

\* The calls of test() that find() makes: the active definitions in list
\* order, up to and including the first that passes.
TestCalls(valid, rest) ==
  LET passes == {j \in 1..Len(valid) : DefTest(Def(valid[j]), rest)}
      last == IF passes = {} THEN Len(valid)
              ELSE CHOOSE j \in passes : \A l \in passes : j <= l
  IN  SubSeq(valid, 1, last)

\* Mutant of ValueOf: the value group is ignored.
WholeMatch(match) == match.text

\* match.groups?.value ?? match[0]
ValueOf(match) ==
  IF /\ match.hasGroups
     /\ "value" \in DOMAIN match.groups
     /\ match.groups.value # Undefined
  THEN match.groups.value ELSE match.text

\* Mutants of RestAfter: the cursor stays where it is; the cursor advances
\* by one character.
RestAfterNone(rest, match) == rest

RestAfterOne(rest, match) == SubSeq(rest, 2, Len(rest))

RestAfter(rest, match) == SubSeq(rest, Len(match.text) + 1, Len(rest))

\* groups without "value"; token.data is set only when a key is left.
DataOf(match) ==
  [n \in (DOMAIN match.groups) \ {"value"} |-> match.groups[n]]

\* Mutant of NewToken: data is set whether or not a key is left.
NewTokenWithData(d, match) ==
  [type |-> Def(d).type, value |-> ValueOf(match), data |-> DataOf(match)]

NewToken(d, match) ==
  LET base == [type |-> Def(d).type, value |-> ValueOf(match)]
  IN  IF match.hasGroups /\ DOMAIN DataOf(match) # {}
      THEN base @@ [data |-> DataOf(match)]
      ELSE base

\* Mutants of LoopDetected: no loop is ever detected; the recorded value is
\* not compared.
LoopNeverDetected(used, d, value) == FALSE

LoopDetectedAnyValue(used, d, value) == UsedHas(used, d)

\* usedDefinitions.has(definition) && usedDefinitions.get(definition) === value
LoopDetected(used, d, value) == UsedHas(used, d) /\ UsedGet(used, d) = value

NoDefinitionError(rest) == [kind |-> "NoDefinitionMatched", text |-> rest]
NoValueError(rest) == [kind |-> "NoValueMatched", text |-> rest]
InfiniteLoopError(value, used) ==
  [kind |-> "InfiniteLoop", text |-> value, chain |-> UsedKeyTypes(used)]

\* ----------------------------------------------------------- activations
Frame(kind, input, proc, parent) ==
  [kind |-> kind,          \* "top": called by the user, "deep": the recursive
                           \* call of a deep definition, "hook": called from
                           \* inside a processor
   input |-> input,
   proc |-> proc,          \* tokenizerProcessor
   valid |-> ValidDefinitions(parent),
   rest |-> input,
   at |-> input,           \* rest at the start of the current iteration
   tokens |-> << >>,
   iterations |-> 0,       \* iterations of the loop that got past the throws
   skipped |-> 0,          \* characters consumed by skipped matches, in this
                           \* activation and the finished ones nested in it
   def |-> Null,           \* the definition found in the current iteration
   token |-> NoToken,
   pc |-> "match"]

Top == stack[Len(stack)]
Running == stack # << >>
SetTop(f) == [stack EXCEPT ![Len(stack)] = f]
Below == SubSeq(stack, 1, Len(stack) - 1)

TopDef == FindDefinition(Top.valid, Top.rest)
\* definition.exec(rest)
Exec(d) == DefExec(Def(d), Top.rest)

\* while (rest.length)
AfterIteration(rest) == IF Len(rest) > 0 THEN "match" ELSE "return"

HookDepth == Cardinality({j \in 1..Len(stack) : stack[j].kind = "hook"})

\* An error thrown in the innermost activation.  Nothing in tokenizer()
\* catches: the exception leaves every activation up to the caller, and the
\* closure variables parentDefinition and usedDefinitions stay as they are.
\* The caller is the user, or (for a call made from inside a processor) the
\* processor, which catches the error and returns its token.
InnermostHook == CHOOSE j \in 1..Len(stack) :
                   /\ stack[j].kind = "hook"
                   /\ \A l \in (j + 1)..Len(stack) : stack[l].kind # "hook"

\* Mutant of Throw: the tokens collected so far are delivered.
ThrowPartial(error) ==
  /\ stack' = << >>
  /\ result' = [status |-> "ok", call |-> "top", input |-> stack[1].input,
                proc |-> stack[1].proc, tokens |-> stack[1].tokens,
                skipped |-> stack[1].skipped]

Throw(error) ==
  IF HookDepth > 0
  THEN /\ stack' = [SubSeq(stack, 1, InnermostHook - 1)
                      EXCEPT ![InnermostHook - 1].pc = "push"]
       /\ result' = [status |-> "error", call |-> "hook",
                     input |-> stack[InnermostHook].input,
                     proc |-> stack[InnermostHook].proc, error |-> error]
  ELSE /\ stack' = << >>
       /\ result' = [status |-> "error", call |-> "top",
                     input |-> stack[1].input, proc |-> stack[1].proc,
                     error |-> error]

\* ------------------------------------------------------ definition(props)
\* The constructor as it works on the caller's pattern sources.  A source is
\* a string or a RegExp (its .source), or an array of them; text is a
\* sequence of characters.
Str(src) == [t |-> "string", src |-> src]
Rx(src) == [t |-> "regexp", src |-> src]
Arr(items) == [t |-> "array", items |-> items]

\* JavaScript truthiness of props[field]: undefined and "" are falsy, every
\* object (a RegExp, an array, empty or not) is truthy.
Truthy(p, field) ==
  Has(p, field) /\ (p[field].t = "string" => p[field].src # << >>)

\* checkProp: undefined passes; a string or RegExp passes when it is not
\* empty; an array passes when it has a non-empty entry.
CheckProp(p, field) ==
  \/ ~Has(p, field)
  \/ /\ p[field].t = "array"
     /\ \E j \in 1..Len(p[field].items) : p[field].items[j].src # << >>
  \/ /\ p[field].t # "array"
     /\ p[field].src # << >>

regexAsString(v) == v.src
asArray(v) == IF v.t = "array" THEN v.items ELSE << v >>

\* escapeLiteral: a backslash goes before every regex metacharacter.
MetaChars == {"^", "(", ")", "|", "\\"}
RECURSIVE EscapeText(_)
EscapeText(src) ==
  IF src = << >> THEN << >>
  ELSE (IF Head(src) \in MetaChars THEN << "\\", Head(src) >> ELSE << Head(src) >>)
         \o EscapeText(Tail(src))
escapeLiteral(v) == EscapeText(v.src)

\* array.join("|")
RECURSIVE JoinBar(_)
JoinBar(texts) ==
  IF texts = << >> THEN << >>
  ELSE IF Len(texts) = 1 THEN texts[1]
  ELSE texts[1] \o << "|" >> \o JoinBar(Tail(texts))

WordBoundaryOf(p) == IF Has(p, "wordBoundary") THEN p.wordBoundary ELSE TRUE

\* execStringRegex: `(\b(${alternation})\b)` or `(${alternation})`
ExecStringRegex(p) ==
  LET execArray == IF Truthy(p, "regex")
                   THEN [j \in 1..Len(asArray(p.regex)) |->
                           regexAsString(asArray(p.regex)[j])]
                   ELSE [j \in 1..Len(asArray(p.literal)) |->
                           escapeLiteral(asArray(p.literal)[j])]
  IN  IF WordBoundaryOf(p)
      THEN << "(", "\\", "b", "(" >> \o JoinBar(execArray)
             \o << ")", "\\", "b", ")" >>
      ELSE << "(" >> \o JoinBar(execArray) \o << ")" >>

\* testStringRegex
TestStringRegex(p) ==
  IF Truthy(p, "valid") THEN regexAsString(p.valid)
  ELSE IF Truthy(p, "nextValid")
       THEN ExecStringRegex(p) \o regexAsString(p.nextValid)
  ELSE ExecStringRegex(p)

\* /^\(*\^/.test(regex): an anchor behind any number of opening parentheses
StartsWithAnchor(text) ==
  \E k \in 1..Len(text) :
    /\ text[k] = "^"
    /\ \A j \in 1..(k - 1) : text[j] = "("

Thrown(message) == [ok |-> FALSE, error |-> message]

\* Mutant of Construct: valid and nextValid may be given together.
ConstructLax(p) ==
  IF ~Truthy(p, "literal") /\ ~Truthy(p, "regex")
  THEN Thrown("Must define literal or regex")
  ELSE IF Truthy(p, "literal") /\ Truthy(p, "regex")
  THEN Thrown("Can only define one of literal or regex")
  ELSE IF ~CheckProp(p, "literal") THEN Thrown("Definition literal cannot be empty")
  ELSE IF ~CheckProp(p, "regex") THEN Thrown("Definition regex cannot be empty")
  ELSE IF ~CheckProp(p, "valid") THEN Thrown("Definition valid cannot be empty")
  ELSE IF ~CheckProp(p, "nextValid")
  THEN Thrown("Definition nextValid cannot be empty")
  ELSE IF StartsWithAnchor(ExecStringRegex(p)) \/ StartsWithAnchor(TestStringRegex(p))
  THEN Thrown("Regex cannot start with ^")
  ELSE [ok |-> TRUE, wordBoundary |-> WordBoundaryOf(p),
        stringRegex |-> ExecStringRegex(p), stringValid |-> TestStringRegex(p)]

\* new Definition(props): the checks in the constructor's order, then
\* buildRegex on the match rule and on the validation rule.
Construct(p) ==
  IF ~Truthy(p, "literal") /\ ~Truthy(p, "regex")
  THEN Thrown("Must define literal or regex")
  ELSE IF Truthy(p, "literal") /\ Truthy(p, "regex")
  THEN Thrown("Can only define one of literal or regex")
  ELSE IF Truthy(p, "valid") /\ Truthy(p, "nextValid")
  THEN Thrown("Can only define one of valid or nextValid")
  ELSE IF ~CheckProp(p, "literal") THEN Thrown("Definition literal cannot be empty")
  ELSE IF ~CheckProp(p, "regex") THEN Thrown("Definition regex cannot be empty")
  ELSE IF ~CheckProp(p, "valid") THEN Thrown("Definition valid cannot be empty")
  ELSE IF ~CheckProp(p, "nextValid")
  THEN Thrown("Definition nextValid cannot be empty")
  ELSE IF StartsWithAnchor(ExecStringRegex(p)) \/ StartsWithAnchor(TestStringRegex(p))
  THEN Thrown("Regex cannot start with ^")
  ELSE [ok |-> TRUE, wordBoundary |-> WordBoundaryOf(p),
        stringRegex |-> ExecStringRegex(p), stringValid |-> TestStringRegex(p)]

\* The props the callers of definition() pass.
Opt(field, values) == {<< >>} \cup {field :> v : v \in values}
Literals ==
  {Str(<< >>), Str(<<"a">>), Str(<<"^", "a">>), Arr(<< >>), Arr(<<Str(<< >>)>>),
   Arr(<<Str(<< >>), Str(<<"a">>)>>)}
Regexes ==
  {Str(<< >>), Rx(<< >>), Str(<<"a">>), Rx(<<"^", "a">>), Rx(<<"(", "^", "a", ")">>),
   Rx(<<"(", "(", "^", "a", ")", ")">>), Rx(<<"a", "^">>),
   Arr(<<Rx(<< >>)>>), Arr(<<Rx(<<"^", "a">>), Rx(<<"b">>)>>),
   Arr(<<Rx(<<"b">>), Rx(<<"^", "a">>)>>)}
Valids == {Str(<< >>), Rx(<< >>), Rx(<<"b">>), Rx(<<"^", "b">>)}
AllProps ==
  {[type |-> "mock"] @@ l @@ r @@ v @@ n @@ w :
     l \in Opt("literal", Literals), r \in Opt("regex", Regexes),
     v \in Opt("valid", Valids), n \in Opt("nextValid", Valids),
     w \in Opt("wordBoundary", BOOLEAN)}
NoProps == << >>
NotBuilt == [status |-> "none"]

\* ---------------------------------------------------------------- actions
Init ==
  /\ \E lx \in Lexers :
       /\ callers = [alphabet |-> lx.alphabet, processors |-> lx.processors,
                     examples |-> lx.examples]
       /\ definitions = lx.definitions
       /\ lexerProcessor = lx.lexerProcessor
  /\ parentDefinition = Null
  /\ usedDefinitions = << >>
  /\ stack = << >>
  /\ result = NoResult
  /\ ncalls = 0
  /\ calls = << >>
  /\ definitionProps = NoProps
  /\ built = NotBuilt

\* tokenizer(input, tokenizerProcessor) called by the user.
Call ==
  /\ ~Running
  /\ ncalls < MaxCalls
  /\ \E input \in Inputs(callers.alphabet) \cup callers.examples,
        proc \in callers.processors :
       stack' = << Frame("top", input, proc, parentDefinition) >>
  /\ result' = NoResult
  /\ ncalls' = ncalls + 1
  /\ calls' = << >>
  /\ UNCHANGED <<definitionProps, built,
                 callers, definitions, lexerProcessor, parentDefinition, usedDefinitions>>

\* Mutant of ThrowNoDefinition: the error carries the call's whole input.
ThrowNoDefinitionInput ==
  /\ Running /\ Top.pc = "match"
  /\ TopDef = Null
  /\ Throw(NoDefinitionError(Top.input))
  /\ calls' = calls \o TestCalls(Top.valid, Top.rest)
  /\ UNCHANGED <<definitionProps, built,
                 callers, definitions, lexerProcessor, parentDefinition,
                 usedDefinitions, ncalls>>

\* if (!definition) throw new Error(`No definition matched for "${rest}"`)
ThrowNoDefinition ==
  /\ Running /\ Top.pc = "match"
  /\ TopDef = Null
  /\ Throw(NoDefinitionError(Top.rest))
  /\ calls' = calls \o TestCalls(Top.valid, Top.rest)
  /\ UNCHANGED <<definitionProps, built,
                 callers, definitions, lexerProcessor, parentDefinition,
                 usedDefinitions, ncalls>>

\* if (!match) throw new Error(`No value matched for "${rest}"`)
ThrowNoValue ==
  /\ Running /\ Top.pc = "match"
  /\ \E d \in {TopDef} :
       /\ d # Null
       /\ ~Exec(d).matched
  /\ Throw(NoValueError(Top.rest))
  /\ calls' = calls \o TestCalls(Top.valid, Top.rest)
  /\ UNCHANGED <<definitionProps, built,
                 callers, definitions, lexerProcessor, parentDefinition,
                 usedDefinitions, ncalls>>

\* throw new Error(`Infinite loop detected for "${value}": ...`)
ThrowInfiniteLoop ==
  /\ Running /\ Top.pc = "match"
  /\ \E d \in {TopDef} :
       /\ d # Null
       /\ \E match \in {Exec(d)} :
            /\ match.matched
            /\ LoopDetected(usedDefinitions, d, ValueOf(match))
            /\ Throw(InfiniteLoopError(ValueOf(match), usedDefinitions))
  /\ calls' = calls \o TestCalls(Top.valid, Top.rest)
  /\ UNCHANGED <<definitionProps, built,
                 callers, definitions, lexerProcessor, parentDefinition,
                 usedDefinitions, ncalls>>

\* The iteration found definition d, d.exec(rest) gave match, and no loop
\* was detected.  One activation is followed for MaxIterations iterations.
Matched(d, match) ==
  /\ Top.iterations < MaxIterations
  /\ d # Null
  /\ match.matched
  /\ ~LoopDetected(usedDefinitions, d, ValueOf(match))

\* Mutant of MatchSkip: the skipped match is emitted as a token.
MatchSkipEmits ==
  /\ Running /\ Top.pc = "match"
  /\ \E d \in {TopDef} : \E match \in {IF d = Null THEN Null ELSE Exec(d)} :
       /\ Matched(d, match)
       /\ Def(d).skip
       /\ stack' = SetTop([Top EXCEPT !.at = Top.rest,
                                      !.iterations = @ + 1,
                                      !.def = d,
                                      !.rest = RestAfter(Top.rest, match),
                                      !.token = NewToken(d, match),
                                      !.pc = "local"])
  /\ calls' = calls \o TestCalls(Top.valid, Top.rest)
  /\ UNCHANGED <<definitionProps, built,
                 callers, definitions, lexerProcessor, parentDefinition,
                 usedDefinitions, result, ncalls>>

\* if (definition.skip) continue
MatchSkip ==
  /\ Running /\ Top.pc = "match"
  /\ \E d \in {TopDef} : \E match \in {IF d = Null THEN Null ELSE Exec(d)} :
       /\ Matched(d, match)
       /\ Def(d).skip
       /\ stack' = SetTop([Top EXCEPT !.at = Top.rest,
                                      !.iterations = @ + 1,
                                      !.def = d,
                                      !.rest = RestAfter(Top.rest, match),
                                      !.skipped = @ + Len(match.text),
                                      !.token = NoToken,
                                      !.pc = AfterIteration(RestAfter(Top.rest, match))])
  /\ calls' = calls \o TestCalls(Top.valid, Top.rest)
  /\ UNCHANGED <<definitionProps, built,
                 callers, definitions, lexerProcessor, parentDefinition,
                 usedDefinitions, result, ncalls>>

\* a token of a definition that is not deep goes straight to the processors
MatchToken ==
  /\ Running /\ Top.pc = "match"
  /\ \E d \in {TopDef} : \E match \in {IF d = Null THEN Null ELSE Exec(d)} :
       /\ Matched(d, match)
       /\ ~Def(d).skip
       /\ ~Def(d).deep
       /\ stack' = SetTop([Top EXCEPT !.at = Top.rest,
                                      !.iterations = @ + 1,
                                      !.def = d,
                                      !.rest = RestAfter(Top.rest, match),
                                      !.token = NewToken(d, match),
                                      !.pc = "local"])
  /\ calls' = calls \o TestCalls(Top.valid, Top.rest)
  /\ UNCHANGED <<definitionProps, built,
                 callers, definitions, lexerProcessor, parentDefinition,
                 usedDefinitions, result, ncalls>>

\* Mutant of MatchDeep: the nested call is given the per-call processor.
MatchDeepKeepsHook ==
  /\ Running /\ Top.pc = "match"
  /\ \E d \in {TopDef} : \E match \in {IF d = Null THEN Null ELSE Exec(d)} :
       /\ Matched(d, match)
       /\ ~Def(d).skip
       /\ Def(d).deep
       /\ usedDefinitions' = UsedSet(usedDefinitions, d, ValueOf(match))
       /\ parentDefinition' = d
       /\ stack' = Append(SetTop([Top EXCEPT !.at = Top.rest,
                                             !.iterations = @ + 1,
                                             !.def = d,
                                             !.rest = RestAfter(Top.rest, match),
                                             !.token = NewToken(d, match),
                                             !.pc = "recurse"]),
                          Frame("deep", ValueOf(match), Top.proc, d))
  /\ calls' = calls \o TestCalls(Top.valid, Top.rest)
  /\ UNCHANGED <<definitionProps, built,
                 callers, definitions, lexerProcessor, result, ncalls>>

\* Mutant of MatchDeep: the three hooks run on the token before its value is
\* tokenized.
MatchDeepHooksFirst ==
  /\ Running /\ Top.pc = "match"
  /\ \E d \in {TopDef} : \E match \in {IF d = Null THEN Null ELSE Exec(d)} :
       /\ Matched(d, match)
       /\ ~Def(d).skip
       /\ Def(d).deep
       /\ usedDefinitions' = UsedSet(usedDefinitions, d, ValueOf(match))
       /\ parentDefinition' = d
       /\ stack' = Append(SetTop([Top EXCEPT
                             !.at = Top.rest,
                             !.iterations = @ + 1,
                             !.def = d,
                             !.rest = RestAfter(Top.rest, match),
                             !.token = ApplyProcessor(lexerProcessor,
                                         ApplyProcessor(Top.proc,
                                           ApplyProcessor(Def(d).process,
                                                          NewToken(d, match)))),
                             !.pc = "recurse"]),
                          Frame("deep", ValueOf(match), defaultProcessor, d))
  /\ calls' = calls \o TestCalls(Top.valid, Top.rest)
  /\ UNCHANGED <<definitionProps, built,
                 callers, definitions, lexerProcessor, result, ncalls>>

\* if (definition.deep) { usedDefinitions.set(...); parentDefinition = ...;
\*                        token.children = tokenizer(value)   <- the call
MatchDeep ==
  /\ Running /\ Top.pc = "match"
  /\ \E d \in {TopDef} : \E match \in {IF d = Null THEN Null ELSE Exec(d)} :
       /\ Matched(d, match)
       /\ ~Def(d).skip
       /\ Def(d).deep
       /\ usedDefinitions' = UsedSet(usedDefinitions, d, ValueOf(match))
       /\ parentDefinition' = d
       /\ stack' = Append(SetTop([Top EXCEPT !.at = Top.rest,
                                             !.iterations = @ + 1,
                                             !.def = d,
                                             !.rest = RestAfter(Top.rest, match),
                                             !.token = NewToken(d, match),
                                             !.pc = "recurse"]),
                          Frame("deep", ValueOf(match), defaultProcessor, d))
  /\ calls' = calls \o TestCalls(Top.valid, Top.rest)
  /\ UNCHANGED <<definitionProps, built,
                 callers, definitions, lexerProcessor, result, ncalls>>

\* the recursive call returns:
\*   token.children = <tokens>; parentDefinition = null;
\*   usedDefinitions.delete(definition)
ReturnDeep ==
  /\ Running /\ Top.pc = "return" /\ Top.kind = "deep"
  /\ LET caller == stack[Len(stack) - 1]
     IN  /\ stack' = [Below EXCEPT ![Len(stack) - 1] =
                        [caller EXCEPT
                           !.token = caller.token @@ [children |-> Top.tokens],
                           !.skipped = @ + Top.skipped,
                           !.pc = "local"]]
         /\ usedDefinitions' = UsedDelete(usedDefinitions, caller.def)
  /\ parentDefinition' = Null
  /\ UNCHANGED <<definitionProps, built,
                 calls, callers, definitions, lexerProcessor, result, ncalls>>

\* return tokens, to the user
ReturnTop ==
  /\ Running /\ Top.pc = "return" /\ Top.kind = "top"
  /\ stack' = << >>
  /\ result' = [status |-> "ok", call |-> "top", input |-> Top.input,
                proc |-> Top.proc, tokens |-> Top.tokens,
                skipped |-> Top.skipped]
  /\ UNCHANGED <<definitionProps, built,
                 calls, callers, definitions, lexerProcessor, parentDefinition,
                 usedDefinitions, ncalls>>

\* return tokens, to the processor that made the call; the processor then
\* returns its token unchanged
ReturnHook ==
  /\ Running /\ Top.pc = "return" /\ Top.kind = "hook"
  /\ stack' = [Below EXCEPT ![Len(stack) - 1].pc = "push"]
  /\ result' = [status |-> "ok", call |-> "hook", input |-> Top.input,
                proc |-> Top.proc, tokens |-> Top.tokens,
                skipped |-> Top.skipped]
  /\ UNCHANGED <<definitionProps, built,
                 calls, callers, definitions, lexerProcessor, parentDefinition,
                 usedDefinitions, ncalls>>

\* Mutant of ProcessLocal: the per-call processor runs in the place of the
\* definition's processor.
ProcessLocalSwapped ==
  /\ Running /\ Top.pc = "local"
  /\ stack' = SetTop([Top EXCEPT !.token = ApplyProcessor(Top.proc, @),
                                 !.pc = "tokenizer"])
  /\ UNCHANGED <<definitionProps, built,
                 calls, callers, definitions, lexerProcessor, parentDefinition,
                 usedDefinitions, result, ncalls>>

\* token = definition.process(token)
ProcessLocal ==
  /\ Running /\ Top.pc = "local"
  /\ stack' = SetTop([Top EXCEPT
                        !.token = ApplyProcessor(Def(Top.def).process, @),
                        !.pc = "tokenizer"])
  /\ UNCHANGED <<definitionProps, built,
                 calls, callers, definitions, lexerProcessor, parentDefinition,
                 usedDefinitions, result, ncalls>>

\* token = tokenizerProcessor(token)
ProcessTokenizer ==
  /\ Running /\ Top.pc = "tokenizer"
  /\ stack' = SetTop([Top EXCEPT !.token = ApplyProcessor(Top.proc, @),
                                 !.pc = "lexer"])
  /\ UNCHANGED <<definitionProps, built,
                 calls, callers, definitions, lexerProcessor, parentDefinition,
                 usedDefinitions, result, ncalls>>

\* token = lexerProcessor(token), for a processor that makes no call (the
\* calling processor makes none when MaxReenter of its calls are in progress)
ProcessLexer ==
  /\ Running /\ Top.pc = "lexer"
  /\ lexerProcessor.kind = "reenter" => HookDepth >= MaxReenter
  /\ stack' = SetTop([Top EXCEPT !.token = ApplyProcessor(lexerProcessor, @),
                                 !.pc = "push"])
  /\ UNCHANGED <<definitionProps, built,
                 calls, callers, definitions, lexerProcessor, parentDefinition,
                 usedDefinitions, result, ncalls>>

\* token = lexerProcessor(token), for a processor that calls the tokenizer on
\* its token's value while the outer call is in progress
ProcessLexerCall ==
  /\ Running /\ Top.pc = "lexer"
  /\ lexerProcessor.kind = "reenter"
  /\ HookDepth < MaxReenter
  /\ stack' = Append(SetTop([Top EXCEPT !.pc = "hooked"]),
                     Frame("hook", Top.token.value, defaultProcessor,
                           parentDefinition))
  /\ result' = NoResult
  /\ UNCHANGED <<definitionProps, built,
                 calls, callers, definitions, lexerProcessor, parentDefinition,
                 usedDefinitions, ncalls>>

\* tokens.push(token); } while (rest.length)
Push ==
  /\ Running /\ Top.pc = "push"
  /\ stack' = SetTop([Top EXCEPT !.tokens = Append(@, Top.token),
                                 !.token = NoToken,
                                 !.pc = AfterIteration(Top.rest)])
  /\ UNCHANGED <<definitionProps, built,
                 calls, callers, definitions, lexerProcessor, parentDefinition,
                 usedDefinitions, result, ncalls>>

Next ==
  \/ Call
  \/ ThrowNoDefinition
  \/ ThrowNoValue
  \/ ThrowInfiniteLoop
  \/ MatchSkip
  \/ MatchToken
  \/ MatchDeep
  \/ ReturnDeep
  \/ ReturnTop
  \/ ReturnHook
  \/ ProcessLocal
  \/ ProcessTokenizer
  \/ ProcessLexer
  \/ ProcessLexerCall
  \/ Push

Spec == Init /\ [][Next]_vars

\* A call that has begun runs on: tokenizer() is synchronous code, so every
\* step of it is taken.  Only the caller's next call is left open.
Step ==
  \/ ThrowNoDefinition
  \/ ThrowNoValue
  \/ ThrowInfiniteLoop
  \/ MatchSkip
  \/ MatchToken
  \/ MatchDeep
  \/ ReturnDeep
  \/ ReturnTop
  \/ ReturnHook
  \/ ProcessLocal
  \/ ProcessTokenizer
  \/ ProcessLexer
  \/ ProcessLexerCall
  \/ Push

FairSpec == Spec /\ WF_vars(Step)

\* -------------------------------------------------- building a definition
\* A caller passes props to definition(); nothing else has been built.
BuildInit ==
  /\ definitionProps \in AllProps
  /\ built = NotBuilt
  /\ callers = [alphabet |-> {}, processors |-> {}, examples |-> {}]
  /\ definitions = << >>
  /\ lexerProcessor = defaultProcessor
  /\ parentDefinition = Null
  /\ usedDefinitions = << >>
  /\ stack = << >>
  /\ result = NoResult
  /\ ncalls = 0
  /\ calls = << >>

\* new Definition(props) throws
DefinitionThrows ==
  /\ built = NotBuilt
  /\ ~Construct(definitionProps).ok
  /\ built' = [status |-> "error", error |-> Construct(definitionProps).error]
  /\ UNCHANGED <<definitionProps, callers, definitions, lexerProcessor, parentDefinition,
                 usedDefinitions, stack, result, ncalls, calls>>

\* new Definition(props) returns the Definition
DefinitionReturns ==
  /\ built = NotBuilt
  /\ Construct(definitionProps).ok
  /\ built' = [status |-> "ok", definition |-> Construct(definitionProps)]
  /\ UNCHANGED <<definitionProps, callers, definitions, lexerProcessor, parentDefinition,
                 usedDefinitions, stack, result, ncalls, calls>>

BuildNext ==
  \/ DefinitionThrows
  \/ DefinitionReturns

BuildSpec == BuildInit /\ [][BuildNext]_vars

\* ------------------------------------------- a whole call, as a function
\* tokenizer(input, tokenizerProcessor) run to its end with nothing else in
\* between, as a function of the closure state st = [parent, used] it starts
\* in: [ok, tokens or error, st at the end].  A processor that calls the
\* tokenizer returns its token unchanged, so it counts as the identity here.
RECURSIVE Tokenizer(_, _, _)
RECURSIVE Iterate(_, _, _, _, _)
Iterate(rest, tokens, valid, proc, st) ==
  LET d == FindDefinition(valid, rest)
      match == DefExec(Def(d), rest)
      value == ValueOf(match)
      after == RestAfter(rest, match)
      inner == Tokenizer(value, defaultProcessor,
                         [parent |-> d, used |-> UsedSet(st.used, d, value)])
      deep == Def(d).deep
      made == IF deep THEN NewToken(d, match) @@ [children |-> inner.tokens]
               ELSE NewToken(d, match)
      token == ApplyProcessor(lexerProcessor,
                 ApplyProcessor(proc,
                   ApplyProcessor(Def(d).process, made)))
      st2 == IF deep THEN [parent |-> Null, used |-> UsedDelete(inner.st.used, d)]
             ELSE st
      Continue(toks, s) == IF Len(after) > 0
                           THEN Iterate(after, toks, valid, proc, s)
                           ELSE [ok |-> TRUE, tokens |-> toks, st |-> s]
  IN  IF d = Null
        THEN [ok |-> FALSE, error |-> NoDefinitionError(rest), st |-> st]
      ELSE IF ~match.matched
        THEN [ok |-> FALSE, error |-> NoValueError(rest), st |-> st]
      ELSE IF LoopDetected(st.used, d, value)
        THEN [ok |-> FALSE, error |-> InfiniteLoopError(value, st.used), st |-> st]
      ELSE IF Def(d).skip THEN Continue(tokens, st)
      ELSE IF deep /\ ~inner.ok THEN inner
      ELSE Continue(Append(tokens, token), st2)

Tokenizer(input, proc, st) ==
  Iterate(input, << >>, ValidDefinitions(st.parent), proc, st)

\* The same call on a freshly built tokenizer.
Fresh == [parent |-> Null, used |-> << >>]
FreshCall(input, proc) == Tokenizer(input, proc, Fresh)

\* What a call delivers to its caller: the tokens or the error.
Delivered(r) == IF r.ok THEN [status |-> "ok", tokens |-> r.tokens]
                ELSE [status |-> "error", error |-> r.error]
Outcome(res) == IF res.status = "ok" THEN [status |-> "ok", tokens |-> res.tokens]
                ELSE [status |-> "error", error |-> res.error]

Finished == result.status # "none"
AsOnFresh == Outcome(result) = Delivered(FreshCall(result.input, result.proc))

\* The first call on a tokenizer whose processors make no call delivers what
\* the function Tokenizer computes from the initial closure state.
FirstCallIsTokenizer ==
  (Finished /\ ncalls = 1 /\ lexerProcessor.kind # "reenter") => AsOnFresh

\* C6: Determinism across calls: every finished top-level call of a
\* tokenizer (whose processors make no calls) delivers what the same call
\* delivers on a freshly built tokenizer.
C6_Determinism ==
  (Finished /\ result.call = "top" /\ lexerProcessor.kind # "reenter")
     => AsOnFresh

\* C7: Non-interference of overlapping calls: when a processor calls the
\* tokenizer while another call is in progress, the inner call and the outer
\* call each deliver what they deliver when run alone.
C7_NonInterference ==
  (Finished /\ ncalls = 1 /\ lexerProcessor.kind = "reenter") => AsOnFresh

\* ------------------------------------------------------------ the claims
Range(f) == {f[j] : j \in DOMAIN f}
Frames == {stack[j] : j \in 1..Len(stack)}

\* Position of definition d in the list of active definitions valid.
PositionIn(valid, d) == CHOOSE j \in 1..Len(valid) : valid[j] = d
Accepts(d, rest) == DefTest(Def(d), rest)
\* The consumed text of the current iteration of activation f.
Consumed(f) == Len(f.at) - Len(f.rest)

CallBase == IF HookDepth > 0 THEN InnermostHook ELSE 1
AtMatch == Running /\ Top.pc = "match"
AllBut(d) == SelectSeq([j \in 1..Len(definitions) |-> j], LAMBDA j : j # d)
HasChildren(token) == "children" \in DOMAIN token

\* C2: Deep nesting: the nested activation of a deep definition d tokenizes
\* the token's extracted value with the definition list minus d, its tokens
\* become the token's children when it returns, and a token has a children
\* field exactly when its definition is deep.
C2_NestedCall ==
  \A j \in 1..Len(stack) :
    /\ stack[j].kind = "deep" =>
         /\ j > 1
         /\ stack[j - 1].pc = "recurse"
         /\ Def(stack[j - 1].def).deep
         /\ stack[j].input = stack[j - 1].token.value
         /\ stack[j].valid = AllBut(stack[j - 1].def)
    /\ stack[j].pc = "recurse" => ~HasChildren(stack[j].token)
    /\ stack[j].pc \in {"local", "tokenizer", "lexer", "hooked", "push"} =>
         (HasChildren(stack[j].token) <=> Def(stack[j].def).deep)

C2_ChildrenAttached ==
  (Running /\ Top.kind = "deep" /\ Top.pc = "return") =>
     /\ Len(stack') = Len(stack) - 1
     /\ stack'[Len(stack')].pc = "local"
     /\ stack'[Len(stack')].token =
          [type |-> stack[Len(stack) - 1].token.type,
           value |-> Top.input,
           children |-> Top.tokens]
          @@ stack[Len(stack) - 1].token

MatchesWhole(d, input) ==
  /\ Accepts(d, input)
  /\ DefExec(Def(d), input).matched
  /\ DefExec(Def(d), input).text = input
AllMatchWhole(input) == \A d \in 1..Len(definitions) : MatchesWhole(d, input)
TwoDeep ==
  /\ Len(definitions) \in {2, 3}
  /\ Def(1).deep /\ Def(2).deep
  /\ Len(definitions) = 3 => (~Def(3).deep /\ ~Def(3).skip)
DeepThenPlain ==
  /\ Len(definitions) = 2
  /\ Def(1).deep /\ ~Def(2).deep /\ ~Def(2).skip
IsLoopError == result.status = "error" /\ result.error.kind = "InfiniteLoop"

Recorded(d, value) ==
  \E j \in 1..Len(usedDefinitions) :
    usedDefinitions[j] = [def |-> d, value |-> value]
FirstAccepting(valid, rest) ==
  IF \E j \in 1..Len(valid) : Accepts(valid[j], rest)
  THEN valid[CHOOSE j \in 1..Len(valid) :
               /\ Accepts(valid[j], rest)
               /\ \A l \in 1..(j - 1) : ~Accepts(valid[l], rest)]
  ELSE Null
Extracted == DefExec(Def(FirstAccepting(Top.valid, Top.rest)), Top.rest)
Extracts ==
  /\ AtMatch
  /\ FirstAccepting(Top.valid, Top.rest) # Null
  /\ Extracted.matched
RaisesLoopError ==
  /\ Len(stack') < Len(stack)
  /\ result'.status = "error"
  /\ result'.error.kind = "InfiniteLoop"
RecursiveGrammar == definitions = <<"sprepDef", "snDef", "prepDef", "nounDef", "spaceSkipDef">>

C4_LoopStep ==
  Extracts =>
    (RaisesLoopError <=>
       Recorded(FirstAccepting(Top.valid, Top.rest), ValueOf(Extracted)))

C4_ValueSensitive ==
  /\ [][C4_LoopStep]_vars
  /\ []((RecursiveGrammar /\ Finished /\ result.input # << >>)
          => result.status = "ok")

\* A deep definition is being recursed into while it is already being
\* recursed into, further out, on another value.
C4_Witness ==
  \E j, l \in 1..Len(stack) :
    /\ j < l
    /\ stack[j].pc = "recurse" /\ stack[l].pc = "recurse"
    /\ stack[j].def = stack[l].def
    /\ stack[j].token.value # stack[l].token.value

\* C5: Active definition set: in a nested activation every definition being
\* recursed into further out is excluded, so with [D1 deep, D2 deep, D3] all
\* matching the input the call returns D1 with child D2 with child D3.
C5_AncestorsExcluded ==
  /\ \A j, l \in 1..Len(stack) :
       (j < l /\ stack[j].pc = "recurse" /\ lexerProcessor.kind # "reenter")
          => stack[j].def \notin Range(stack[l].valid)
  /\ (Finished /\ ncalls = 1 /\ TwoDeep /\ Len(definitions) = 3
        /\ AllMatchWhole(result.input))
       => /\ result.status = "ok"
          /\ result.tokens =
               << [type |-> Def(1).type, value |-> result.input,
                   children |->
                     << [type |-> Def(2).type, value |-> result.input,
                         children |->
                           << [type |-> Def(3).type,
                               value |-> result.input] >>] >>] >>

\* C8: Failure is terminal: when an iteration meets one of the three error
\* conditions, at the top level or in a nested activation, the next step
\* ends the whole call with an error and no tokens; no activation of the
\* call is left to continue.
ErrorCondition ==
  /\ AtMatch
  /\ \/ FirstAccepting(Top.valid, Top.rest) = Null
     \/ ~Extracted.matched
     \/ Recorded(FirstAccepting(Top.valid, Top.rest), ValueOf(Extracted))
CallEnded ==
  /\ Len(stack') = CallBase - 1
  /\ \A j \in 1..Len(stack') : stack'[j].tokens = stack[j].tokens
  /\ result'.input = stack[CallBase].input
  /\ result'.proc = stack[CallBase].proc
EndedWith(error) ==
  /\ CallEnded
  /\ result'.status = "error"
  /\ result'.error = error
  /\ ~("tokens" \in DOMAIN result')

C8_FailureStep ==
  ErrorCondition =>
    /\ CallEnded
    /\ result'.status = "error"
    /\ result'.error.kind \in {"NoDefinitionMatched", "NoValueMatched", "InfiniteLoop"}
    /\ ~("tokens" \in DOMAIN result')

C8_FailureIsTerminal == [][C8_FailureStep]_vars

\* A call failed after it had consumed part of its input.
C8_Witness ==
  /\ Finished /\ result.status = "error" /\ result.call = "top"
  /\ result.error.kind = "NoDefinitionMatched"
  /\ result.error.text # result.input
  /\ stack = << >>

\* C9: No definition matched: when no active definition's validation rule
\* matches the remaining input, the call fails with the no-definition-matched
\* error carrying the remaining text of the activation where it happened.
C9_Step ==
  (AtMatch /\ FirstAccepting(Top.valid, Top.rest) = Null)
     => EndedWith([kind |-> "NoDefinitionMatched", text |-> Top.rest])

C9_NoDefinitionMatched == [][C9_Step]_vars

\* The error of a nested activation: its text is neither the call's input
\* nor a text the top-level activation was left with.
C9_Witness ==
  /\ Finished /\ result.status = "error"
  /\ result.error.kind = "NoDefinitionMatched"
  /\ definitions = <<"lineDef", "wordDef">>
  /\ result.error.text = <<" ", "a">>

\* C10: No value matched: when the first active definition whose validation
\* rule accepts the remaining input has a match rule that does not match it,
\* the call fails with the no-value-matched error carrying the remaining
\* text, whether or not a later definition would match.
C10_Step ==
  (/\ AtMatch
   /\ FirstAccepting(Top.valid, Top.rest) # Null
   /\ ~Extracted.matched)
     => EndedWith([kind |-> "NoValueMatched", text |-> Top.rest])

C10_NoValueMatched == [][C10_Step]_vars

\* The call failed with no value matched on a text that a later definition
\* accepts and extracts.
C10_Witness ==
  /\ Finished /\ result.status = "error"
  /\ result.error.kind = "NoValueMatched"
  /\ \E d \in 2..Len(definitions) :
       /\ Accepts(d, result.error.text)
       /\ DefExec(Def(d), result.error.text).matched
\* The tokens of a token sequence and all their descendants.
RECURSIVE Flatten(_)
Flatten(tokens) ==
  IF tokens = << >> THEN << >>
  ELSE <<Head(tokens)>>
         \o (IF HasChildren(Head(tokens)) THEN Flatten(Head(tokens).children)
             ELSE << >>)
         \o Flatten(Tail(tokens))

\* C11: Skip: a match by a definition with skip set advances the cursor by
\* the full length of the match, appends no token, runs no hook and starts
\* no deep recursion (the activation goes straight to its next iteration or
\* returns); no token of a skipping definition appears in any output.
SkipMatch ==
  /\ AtMatch
  /\ FirstAccepting(Top.valid, Top.rest) # Null
  /\ Extracted.matched
  /\ Def(FirstAccepting(Top.valid, Top.rest)).skip
SkipTypes ==
  {Def(j).type : j \in {l \in 1..Len(definitions) : Def(l).skip}}
     \ {Def(j).type : j \in {l \in 1..Len(definitions) : ~Def(l).skip}}

C11_Step ==
  SkipMatch =>
    /\ Len(stack') = Len(stack)
    /\ \A j \in 1..(Len(stack) - 1) : stack'[j] = stack[j]
    /\ stack'[Len(stack)].rest =
         SubSeq(Top.rest, Len(Extracted.text) + 1, Len(Top.rest))
    /\ stack'[Len(stack)].tokens = Top.tokens
    /\ stack'[Len(stack)].token = NoToken
    /\ stack'[Len(stack)].pc =
         (IF Len(Extracted.text) < Len(Top.rest) THEN "match" ELSE "return")
    /\ parentDefinition' = parentDefinition
    /\ usedDefinitions' = usedDefinitions

C11_Skip ==
  /\ [][C11_Step]_vars
  /\ [](\A f \in Frames :
          \A j \in 1..Len(Flatten(f.tokens)) :
            Flatten(f.tokens)[j].type \notin SkipTypes)

\* A call returned two tokens with skipped text between them, skipped by a
\* definition that is deep as well.
C11_Witness ==
  /\ Finished /\ result.status = "ok" /\ result.call = "top"
  /\ result.skipped > 0
  /\ Len(result.tokens) = 2
  /\ \E j \in 1..Len(definitions) : Def(j).skip /\ Def(j).deep
\* C12: Pipeline ordering: a built token goes through the definition's hook,
\* then the per-call hook, then the engine-level hook, each applied to what
\* the stage before returned, and what the engine-level hook returned is
\* what is appended; with suffix-appending hooks the value of a returned
\* token is original + local + per-call + engine.
Next1 == stack'[Len(stack)]
Sfx(p) == IF p.kind = "suffix" THEN p.sfx ELSE << >>
HookSuffixes == {"-local", "-tokenizer", "-lexer"}
Original(token) == SelectSeq(token.value, LAMBDA c : c \notin HookSuffixes)

C12_Step ==
  /\ (Running /\ Top.pc = "local") =>
        /\ Len(stack') = Len(stack)
        /\ Next1.pc = "tokenizer"
        /\ Next1.token = ApplyProcessor(Def(Top.def).process, Top.token)
  /\ (Running /\ Top.pc = "tokenizer") =>
        /\ Len(stack') = Len(stack)
        /\ Next1.pc = "lexer"
        /\ Next1.token = ApplyProcessor(Top.proc, Top.token)
  /\ (Running /\ Top.pc = "lexer" /\ lexerProcessor.kind # "reenter") =>
        /\ Len(stack') = Len(stack)
        /\ Next1.pc = "push"
        /\ Next1.token = ApplyProcessor(lexerProcessor, Top.token)
  /\ (Running /\ Top.pc = "push") =>
        /\ Len(stack') = Len(stack)
        /\ Next1.tokens = Append(Top.tokens, Top.token)

C12_Suffixes ==
  (Finished /\ result.status = "ok" /\ result.call = "top") =>
     \A k \in 1..Len(result.tokens) :
        \E j \in 1..Len(definitions) :
           /\ Def(j).type = result.tokens[k].type
           /\ result.tokens[k].value =
                Original(result.tokens[k]) \o Sfx(Def(j).process)
                   \o Sfx(result.proc) \o Sfx(lexerProcessor)

C12_PipelineOrdering == [][C12_Step]_vars /\ []C12_Suffixes

\* A returned token went through three suffix-appending hooks.
C12_Witness ==
  /\ Finished /\ result.status = "ok" /\ result.call = "top"
  /\ \E k \in 1..Len(result.tokens) :
       /\ Len(result.tokens[k].value) > 3
       /\ SubSeq(result.tokens[k].value, Len(result.tokens[k].value) - 2,
                 Len(result.tokens[k].value))
            = <<"-local", "-tokenizer", "-lexer">>
\* C13: Value capture: the value of a token is the text captured by the
\* group named value when the match has one, else the whole matched text; in
\* both cases the cursor advances by the length of the whole match.
EmitMatch ==
  /\ AtMatch
  /\ FirstAccepting(Top.valid, Top.rest) # Null
  /\ Extracted.matched
  /\ ~Recorded(FirstAccepting(Top.valid, Top.rest), ValueOf(Extracted))
  /\ ~Def(FirstAccepting(Top.valid, Top.rest)).skip
CapturedValue(match) ==
  match.hasGroups /\ "value" \in DOMAIN match.groups
     /\ match.groups["value"] # Undefined

C13_Step ==
  EmitMatch =>
    /\ Len(stack') >= Len(stack)
    /\ Next1.token.value =
         (IF CapturedValue(Extracted) THEN Extracted.groups["value"]
          ELSE Extracted.text)
    /\ Next1.rest = SubSeq(Top.rest, Len(Extracted.text) + 1, Len(Top.rest))
    /\ Top.rest = Extracted.text \o Next1.rest

C13_ValueCapture == [][C13_Step]_vars

\* A token whose value is shorter than the text its match consumed.
C13_Witness ==
  \E f \in Frames :
    /\ f.pc = "local"
    /\ ~Def(f.def).deep
    /\ Len(f.token.value) > 0
    /\ Len(f.token.value) < Consumed(f)
\* C14: Token data: before the hooks run, the data of a token maps each
\* named capture group of the match other than value to the text it
\* captured, and the token has no data field exactly when the match has no
\* named capture group other than value.
DataNames(match) ==
  (IF match.hasGroups THEN DOMAIN match.groups ELSE {}) \ {"value"}

C14_Step ==
  EmitMatch =>
    /\ ("data" \in DOMAIN Next1.token) <=> (DataNames(Extracted) # {})
    /\ DataNames(Extracted) # {} =>
         /\ DOMAIN Next1.token.data = DataNames(Extracted)
         /\ \A n \in DataNames(Extracted) :
              Extracted.groups[n] # Undefined =>
                 Next1.token.data[n] = Extracted.groups[n]

RECURSIVE ValueLengths(_)
ValueLengths(tokens) ==
  IF tokens = << >> THEN 0
  ELSE Len(Head(tokens).value) + ValueLengths(Tail(tokens))
IdentityHooks ==
  /\ lexerProcessor = defaultProcessor
  /\ result.proc = defaultProcessor
  /\ \A j \in 1..Len(definitions) : Def(j).process = defaultProcessor
Tokenized ==
  /\ Finished /\ result.status = "ok" /\ result.call = "top"
  /\ result.input # << >>
  /\ IdentityHooks

C15_Coverage ==
  Tokenized =>
    ValueLengths(Flatten(result.tokens)) + result.skipped = Len(result.input)

\* C15 as amended: when no definition has a value capture group, the lengths
\* of the values of the tokens without a children field in the flattened
\* output plus the lengths of all skipped matches, nested ones included, add
\* up to the length of the input.
Leaves(tokens) == SelectSeq(Flatten(tokens), LAMBDA t : ~HasChildren(t))
NoValueGroups ==
  \A j \in 1..Len(definitions) : "value" \notin GroupNames(Def(j).execRegex)

C15_LeafCoverage ==
  (Tokenized /\ NoValueGroups) =>
    ValueLengths(Leaves(result.tokens)) + result.skipped = Len(result.input)

\* A deep token whose nested tokenization skipped part of its value.
C15_Witness ==
  /\ Tokenized /\ NoValueGroups
  /\ result.skipped > 0
  /\ \E k \in 1..Len(result.tokens) :
       /\ HasChildren(result.tokens[k])
       /\ Len(result.tokens[k].children) > 1
\* C16: Termination: every call that has begun eventually ends, with a token
\* sequence or with one of the three engine errors, and the recursion depth
\* of a call never exceeds 1 + (number of deep definitions) * (length of the
\* call's input).  A call made from inside a processor is an activation on
\* the stack, so it has ended too once the stack is empty.  This is claimed
\* of the definition lists in which every successful extraction consumes at
\* least one character.
ConsumingNames ==
  {n \in DOMAIN DefinitionObjects :
     \A s \in Inputs(Alphabet) :
       DefExec(DefinitionObjects[n], s).matched
         => DefExec(DefinitionObjects[n], s).text # << >>}
Consuming == \A j \in 1..Len(definitions) : definitions[j] \in ConsumingNames
NumDeep == Cardinality({j \in 1..Len(definitions) : Def(j).deep})
CallBases == {b \in 1..Len(stack) : b = 1 \/ stack[b].kind = "hook"}
\* The innermost activation of the call that began at activation b.
CallTop(b) ==
  IF \E h \in (b + 1)..Len(stack) : stack[h].kind = "hook"
  THEN (CHOOSE h \in (b + 1)..Len(stack) :
          /\ stack[h].kind = "hook"
          /\ \A l \in (b + 1)..(h - 1) : stack[l].kind # "hook") - 1
  ELSE Len(stack)
DepthBound(input) == 1 + NumDeep * Len(input)

C16_DepthBounded ==
  \A b \in CallBases : CallTop(b) - b + 1 <= DepthBound(stack[b].input)
C16_EndsProperly ==
  Finished =>
    \/ result.status = "ok" /\ "tokens" \in DOMAIN result
    \/ /\ result.status = "error"
       /\ result.error.kind \in
            {"NoDefinitionMatched", "NoValueMatched", "InfiniteLoop"}

C16_Termination ==
  /\ (Running /\ Consuming) ~> (~Running /\ Finished)
  /\ []C16_DepthBounded
  /\ []C16_EndsProperly

\* A call is as deep as its bound allows, with the same deep definition
\* entered twice.
C16_Witness ==
  /\ Running
  /\ Len(stack) = DepthBound(stack[1].input)
  /\ Len(stack) > NumDeep + 1
\* C17: Empty input: a call on the empty string returns an empty token
\* sequence without testing any definition and without an error, and so does
\* the nested tokenization of a deep token whose value is empty.
C17_EmptyInput ==
  /\ (Finished /\ result.input = << >>) =>
       /\ result.status = "ok"
       /\ result.tokens = << >>
       /\ (result.call = "top" => calls = << >>)
  /\ \A f \in Frames :
       (f.kind = "deep" /\ f.input = << >>) => f.pc = "return"
\* C18: Loop-error chain: the infinite-loop error names the offending value
\* and lists the types of the definitions on the recursion stack, oldest
\* first, followed by the type of the offending definition.
LoopCondition ==
  /\ Extracts
  /\ Recorded(FirstAccepting(Top.valid, Top.rest), ValueOf(Extracted))
Recursing == SelectSeq(stack, LAMBDA f : f.pc = "recurse")
RecursionTypes == [j \in 1..Len(Recursing) |-> Def(Recursing[j].def).type]

C18_Step ==
  LoopCondition =>
    /\ result'.status = "error"
    /\ result'.error.kind = "InfiniteLoop"
    /\ result'.error.text = ValueOf(Extracted)
    /\ result'.error.chain =
         Append(RecursionTypes, Def(FirstAccepting(Top.valid, Top.rest)).type)

C18_LoopErrorChain == [][C18_Step]_vars
\* C19: Test-call ordering: at each cursor position the validation rules are
\* called in list order from the first active definition, and none is called
\* after one accepts; for [space, hello, world] on "hello world" (here
\* "a b") the calls are space, hello, space, space, hello, world.
C19_Step ==
  AtMatch =>
    \E n \in 1..Len(Top.valid) :
       /\ calls' = calls \o SubSeq(Top.valid, 1, n)
       /\ \A j \in 1..(n - 1) : ~Accepts(Top.valid[j], Top.rest)
       /\ Accepts(Top.valid[n], Top.rest) \/ n = Len(Top.valid)
C19_Example ==
  (/\ Finished
   /\ definitions = <<"spaceWbDef", "helloDef", "worldDef">>
   /\ result.input = <<"a", " ", "b">>)
     => calls = <<1, 2, 1, 1, 2, 3>>

C19_TestCallOrdering == [][C19_Step]_vars /\ []C19_Example

\* C20: Word boundary: with wordBoundary enabled the only condition added to
\* the alternation is that the match ends at a word boundary, nothing is
\* required where the match starts; with wordBoundary disabled the
\* alternation alone decides.
EndBoundaryOnly(d) == IF d.wordBoundary THEN d.execRegex.r ELSE d.execRegex

C20_WordBoundary ==
  AtMatch =>
    \A j \in 1..Len(definitions) :
       DefExec(Def(j), Top.rest) = RegexExec(EndBoundaryOnly(Def(j)), Top.rest)

\* ---------------------------------------------------------------- C21
\* What the claim calls an empty source: an empty string or RegExp, or a list
\* with no non-empty entry.
EmptySource(v) ==
  IF v.t = "array" THEN \A j \in 1..Len(v.items) : Len(v.items[j].src) = 0
  ELSE Len(v.src) = 0
SourceFields == {"literal", "regex", "valid", "nextValid"}
ListedFailure(p) ==
  \/ ~Has(p, "literal") /\ ~Has(p, "regex")
  \/ Has(p, "literal") /\ Has(p, "regex")
  \/ \E f \in SourceFields : Has(p, f) /\ EmptySource(p[f])
  \/ Has(p, "valid") /\ Has(p, "nextValid")
\* The text that follows the engine's own opening parenthesis when no word
\* boundary is asked for: the first regex alternative.
FirstRegex(p) == asArray(p.regex)[1].src
AnchorFailure(p) ==
  \/ Has(p, "valid") /\ StartsWithAnchor(p.valid.src)
  \/ /\ Has(p, "regex")
     /\ ~WordBoundaryOf(p)
     /\ StartsWithAnchor(FirstRegex(p))
Constructed == built.status # "none"

AnchoredPattern(v) ==
  /\ v.t # "array"
  /\ \E k \in 1..3 :
       /\ k <= Len(v.src)
       /\ v.src[k] = "^"
       /\ \A j \in 1..(k - 1) : v.src[j] = "("

\* C22: Anchor rejection: building a definition fails whenever the pattern
\* the caller supplies begins with a start-of-string anchor, bare or wrapped
\* in one or two opening parentheses, whatever wordBoundary is.
C22_AnchorRejection ==
  (/\ Constructed
   /\ Has(definitionProps, "regex")
   /\ AnchoredPattern(definitionProps.regex))
    => built.status = "error"

\* ---------------------------------------------------------------- C23
\* The definitions built with nextValid, and the rule they were given.
NextValidNames == {"keyDef", "nextDef"}
NextValidRule == Lit(<<"b">>)
Selected == FirstAccepting(Top.valid, Top.rest)
SelectedNextValid ==
  /\ AtMatch
  /\ Selected # Null
  /\ definitions[Selected] \in NextValidNames

\* C23: nextValid: a definition built with nextValid is selected only where
\* its match rule matches and the match is immediately followed by text
\* matching nextValid: the text consumed is the match rule's match only, and
\* the text left right after it matches nextValid.
C23_Step ==
  SelectedNextValid =>
    /\ Extracted.matched
    /\ Len(stack') = Len(stack)
    /\ Top.rest = Extracted.text \o Next1.rest
    /\ RegexTest(NextValidRule, Next1.rest)

C23_NextValid == [][C23_Step]_vars

\* ---------------------------------------------------------------- C24
\* The definitions built with valid, with the rule they were given and their
\* match rule as the caller wrote it.
ValidRules == [validDef |-> Lit(<<"a">>), mismatchDef |-> Word]
MatchRules == [validDef |-> Word, mismatchDef |-> Blank]
WithValid(d) == definitions[d] \in DOMAIN ValidRules
\* The match rule as the constructor compiles it: both definitions leave
\* wordBoundary at its default.
CompiledMatchRule(d) == Cat(WordB, Cat(MatchRules[definitions[d]], WordB))

\* C24: valid: a definition given valid is eligible exactly where valid
\* matches at the start of the remaining input, whatever its match rule and
\* the word boundary say; the text consumed and the token's value are those
\* of the match rule (and when the match rule does not match, the call fails
\* with NoValueMatched).
C24_Eligibility ==
  AtMatch =>
    \A j \in 1..Len(Top.valid) :
      WithValid(Top.valid[j]) =>
        (Accepts(Top.valid[j], Top.rest)
           <=> RegexTest(ValidRules[definitions[Top.valid[j]]], Top.rest))
C24_Step ==
  (AtMatch /\ Selected # Null /\ WithValid(Selected)) =>
    IF RegexTest(CompiledMatchRule(Selected), Top.rest)
    THEN /\ Len(stack') = Len(stack)
         /\ Next1.token.value = RegexExec(CompiledMatchRule(Selected), Top.rest).text
         /\ Top.rest = Next1.token.value \o Next1.rest
    ELSE /\ stack' = << >>
         /\ result'.status = "error"
         /\ result'.error.kind = "NoValueMatched"

C24_Valid == []C24_Eligibility /\ [][C24_Step]_vars

\* A definition given valid was selected where its match rule wrapped in
\* word boundaries would not be the whole of what valid matched, and its
\* token was returned.
C24_Witness ==
  /\ Finished /\ result.status = "ok"
  /\ \E k \in 1..Len(result.tokens) :
       /\ result.tokens[k].type = "valid"
       /\ Len(result.tokens[k].value) > 1

\* ---------------------------------------------------------------- C25
TypesAndValues(tokens) ==
  [k \in 1..Len(tokens) |-> <<tokens[k].type, tokens[k].value>>]
ReadmeOutput ==
  << <<"number", <<"1">> >>, <<"operator", <<"+">> >>, <<"number", <<"2">> >>,
     <<"operator", <<"*">> >>, <<"number", <<"3">> >> >>

\* C25: README example: with the README's definitions in the README's order,
\* tokenizing "1 + 2 * 3" returns exactly five tokens, of types number,
\* operator, number, operator, number and values 1, +, 2, *, 3.
C25_ReadmeExample ==
  (/\ Finished
   /\ definitions = ReadmeDefinitions
   /\ result.input = ReadmeInput)
    => /\ result.status = "ok"
       /\ TypesAndValues(result.tokens) = ReadmeOutput

\* ---------------------------------------------------------------- C26
\* The tokens below the top level of a token sequence, at any depth.
RECURSIVE Descendants(_)
Descendants(tokens) ==
  IF tokens = << >> THEN << >>
  ELSE (IF HasChildren(Head(tokens)) THEN Flatten(Head(tokens).children)
        ELSE << >>)
         \o Descendants(Tail(tokens))
\* token went through the hook of a definition of its type, then through the
\* hooks given, each a suffix-appending hook or one that changes nothing.
WentThrough(token, hooks) ==
  \E j \in 1..Len(definitions) :
    /\ Def(j).type = token.type
    /\ token.value = Original(token) \o Sfx(Def(j).process) \o hooks

C26_NestedIdentity ==
  \A f \in Frames : f.kind = "deep" => f.proc = defaultProcessor
C26_Returned ==
  (Finished /\ result.status = "ok" /\ result.call = "top") =>
    /\ \A k \in 1..Len(result.tokens) :
         WentThrough(result.tokens[k], Sfx(result.proc) \o Sfx(lexerProcessor))
    /\ \A k \in 1..Len(Descendants(result.tokens)) :
         WentThrough(Descendants(result.tokens)[k], Sfx(lexerProcessor))

\* C26: Per-call hook scope: the per-call hook is applied to the tokens of
\* the top-level sequence only; a nested tokenization of a deep token runs
\* with the identity per-call hook, so a child token at any depth has gone
\* through its definition's hook and the engine-level hook and no other.
C26_PerCallHookScope == []C26_NestedIdentity /\ []C26_Returned

\* A call with a suffix-appending per-call hook returned a deep token whose
\* child went through its definition's hook and the engine-level hook.
C26_Witness ==
  /\ Finished /\ result.status = "ok" /\ result.call = "top"
  /\ result.proc = SuffixProcessor(<<"-tokenizer">>)
  /\ \E k \in 1..Len(result.tokens) :
       /\ HasChildren(result.tokens[k])
       /\ result.tokens[k].value = <<"a", "-tokenizer", "-lexer">>
       /\ result.tokens[k].children = << [type |-> "word",
                                          value |-> <<"a", "-local", "-lexer">>] >>

\* ---------------------------------------------------------------- C27
\* A step that is an iteration of the loop getting past its throws.
IterationStep == AtMatch /\ Len(stack') >= Len(stack)
C27_Step == IterationStep => Len(Next1.rest) < Len(Top.rest)
C27_Bound == \A f \in Frames : f.iterations <= Len(f.input)

\* C27 as stated: every iteration of the loop that raises no error leaves
\* the remaining input strictly shorter than it was when the iteration
\* began, so an activation performs at most as many iterations as its input
\* has characters.
C27_Progress == [][C27_Step]_vars /\ []C27_Bound

\* C27, amended: the same, for the definition lists in which every
\* successful extraction consumes at least one character.
C27_ProgressWhenConsuming ==
  /\ [][Consuming => C27_Step]_vars
  /\ [](Consuming => C27_Bound)

\* An activation went through as many iterations as its input has
\* characters, one of them a skipped match.
C27_Witness ==
  /\ Consuming
  /\ \E f \in Frames :
       /\ f.iterations = Len(f.input)
       /\ Len(f.input) = MaxLen
       /\ f.skipped > 0

\* ---------------------------------------------------------------- C28
\* The definitions whose nested tokenization is in progress, and those the
\* loop-detection map has an entry for.
InProgress ==
  {stack[j].def : j \in {l \in 1..Len(stack) : stack[l].pc = "recurse"}}
RecordedDefinitions ==
  {usedDefinitions[j].def : j \in 1..Len(usedDefinitions)}

\* C28: Recursion record mirrors the stack: at every moment of a tokenize
\* call the loop-detection map has an entry for every deep definition whose
\* nested tokenization is in progress and for no other definition.  Stated
\* of a first call with no call made from inside a hook, so that nothing is
\* left over from an earlier or an enclosing call.
C28_RecordMirrorsStack ==
  (Running /\ ncalls = 1 /\ HookDepth = 0) => RecordedDefinitions = InProgress

\* ---------------------------------------------------------------- C29
\* C29: Clean state after success: whenever a top-level tokenize call has
\* returned a token sequence, the shared recursion state is back at its
\* initial value: no parent definition is recorded and the loop-detection
\* map is empty.
ReturnedTokens == ~Running /\ result.status = "ok" /\ result.call = "top"
C29_CleanAfterSuccess ==
  ReturnedTokens => (parentDefinition = Null /\ usedDefinitions = << >>)

\* The same for a tokenizer's first call when no processor calls the
\* tokenizer: the state a call leaves dirty is the state of a call that threw.
C29_FirstCallClean ==
  (ReturnedTokens /\ ncalls = 1 /\ lexerProcessor.kind # "reenter")
     => (parentDefinition = Null /\ usedDefinitions = << >>)

\* ---------------------------------------------------------------- C30
\* No hook has run on the token: its value carries no hook's suffix.
Unhooked(token) == token.value = Original(token)
\* token went through all three hooks of the activation f.
Hooked(token, f) == WentThrough(token, Sfx(f.proc) \o Sfx(lexerProcessor))

\* While the value of a deep token is being tokenized, no hook has run on the
\* token and it has no children yet.
C30_ParentWaits ==
  \A f \in Frames :
    f.pc = "recurse" => (Unhooked(f.token) /\ ~HasChildren(f.token))
\* When the definition's hook is about to run on a deep token, the children
\* are attached and every token below it went through its definition's hook
\* and the engine-level hook.
C30_ChildrenDone ==
  \A f \in Frames :
    (f.pc = "local" /\ Def(f.def).deep) =>
       /\ Unhooked(f.token)
       /\ HasChildren(f.token)
       /\ \A k \in 1..Len(Flatten(f.token.children)) :
            WentThrough(Flatten(f.token.children)[k], Sfx(lexerProcessor))
\* The tokens to the left of the one in hand went through all their hooks.
C30_LeftToRight ==
  \A f \in Frames : \A k \in 1..Len(f.tokens) : Hooked(f.tokens[k], f)
\* The nested call returns only when its input is used up and its last
\* token is pushed, and the hooks of the parent start after that; the
\* definition's hook is handed the token with the children on it.
C30_Step ==
  /\ (Running /\ Top.kind = "deep" /\ Top.pc = "return") =>
        /\ Top.rest = << >>
        /\ Top.token = NoToken
        /\ stack[Len(stack) - 1].pc = "recurse"
        /\ stack'[Len(stack')].pc = "local"
        /\ stack'[Len(stack')].token.children = Top.tokens
  /\ (Running /\ Top.pc = "local" /\ Def(Top.def).deep) =>
        /\ HasChildren(Top.token)
        /\ Next1.token = ApplyProcessor(Def(Top.def).process, Top.token)
        /\ Next1.token.children = Top.token.children

\* C30: Post-order processing: the children of a deep token are completely
\* tokenized and have passed through their own hooks before any hook runs on
\* the parent token, the parent's definition hook receives the token with its
\* children attached, and the tokens to the left are finished before the
\* next one is begun: hooks run over the token tree in post-order, left to
\* right.
C30_PostOrder ==
  /\ []C30_ParentWaits
  /\ []C30_ChildrenDone
  /\ []C30_LeftToRight
  /\ [][C30_Step]_vars

\* The definition's hook has run on a deep token whose child had already been
\* through its own hooks; the per-call and engine-level hooks have not run.
C30_Witness ==
  /\ Running /\ Top.pc = "tokenizer"
  /\ Def(Top.def).deep
  /\ Top.token.value = <<"a">>
  /\ Top.token.children = << [type |-> "word",
                              value |-> <<"a", "-local", "-lexer">>] >>

====
